---- MODULE Spec2Model ----
(***************************************************************************)
(* Meeting-room scheduling engine of MeetingScheduler/MeetingScheduler.cpp *)
(* (classes RoomService and MeetingService).  Every public method is one   *)
(* action; the methods' bodies are the operators below.                    *)
(***************************************************************************)
EXTENDS Integers, Sequences, FiniteSets, TLC

\* ------------------------------------------------------------- bounds
\* rooms that RoomService::addRoom may register
MaxRooms == 2
\* times passed by callers are 0..MaxTime
MaxTime == 2
\* meetings that may ever be created (caps nextMeetingId)
MaxMeetings == 2

Times == 0 .. MaxTime
\* room ids a caller may pass (some of them not registered at the time)
RoomIds == 1 .. MaxRooms
\* meeting ids a caller may pass to cancelMeeting (MaxMeetings + 1 is never issued)
MeetingIds == 1 .. (MaxMeetings + 1)

VARIABLES
    rooms,          \* RoomService::rooms, the room ids in registration order
    nextRoomId,     \* RoomService::nextRoomId
    roomMeetings,   \* MeetingService::roomMeetings: roomId -> multiset, as a sequence in multiset order
    allMeetings,    \* MeetingService::allMeetings: meetingId -> Meeting
    nextMeetingId,  \* MeetingService::nextMeetingId
    lastOp,         \* history: the last call, its arguments, the value returned, the exception thrown
    undo            \* history: the stores as they were before the latest successful scheduleMeeting

vars == <<rooms, nextRoomId, roomMeetings, allMeetings, nextMeetingId, lastOp, undo>>

\* ------------------------------------------------------------- helpers
Min(S) == CHOOSE x \in S : \A y \in S : x <= y

\* the keys of a std::map in iteration (ascending) order
RECURSIVE KeysInOrder(_)
KeysInOrder(S) ==
    IF S = {} THEN << >>
    ELSE LET k == Min(S) IN <<k>> \o KeysInOrder(S \ {k})

\* ------------------------------------------------------------- Meeting
Meeting(id, room, start, end) ==
    [meetingId |-> id, roomId |-> room, startTime |-> start, endTime |-> end]

\* Meeting::operator< : the multiset orders by startTime only
MeetingLess(a, b) == a.startTime < b.startTime

\* ------------------------------------------------------------- multiset<Meeting>
\* multiset::upper_bound: the first position whose element is greater than m,
\* Len + 1 standing for end()
upper_bound(meetings, m) ==
    LET after == {i \in 1 .. Len(meetings) : MeetingLess(m, meetings[i])}
    IN  IF after = {} THEN Len(meetings) + 1 ELSE Min(after)

\* a plausible slip: the element goes to the front, as into a list that is
\* not kept in order
insert_Front(meetings, m) == <<m>> \o meetings

\* multiset::insert: at the upper bound of the equivalent elements
insert(meetings, m) ==
    LET p == upper_bound(meetings, m)
    IN  SubSeq(meetings, 1, p - 1) \o <<m>> \o SubSeq(meetings, p, Len(meetings))

\* multiset::find: the first element equivalent to m under operator<
\* (neither less than the other), Len + 1 standing for end()
find(meetings, m) ==
    LET eq == {i \in 1 .. Len(meetings) :
                  ~MeetingLess(meetings[i], m) /\ ~MeetingLess(m, meetings[i])}
    IN  IF eq = {} THEN Len(meetings) + 1 ELSE Min(eq)

\* multiset::erase(iterator)
erase(meetings, p) ==
    SubSeq(meetings, 1, p - 1) \o SubSeq(meetings, p + 1, Len(meetings))

\* map::operator[] : the map after the lookup, a missing key is inserted
\* with an empty multiset
Subscript(rm, roomId) ==
    IF roomId \in DOMAIN rm THEN rm
    ELSE [r \in (DOMAIN rm) \cup {roomId} |-> IF r = roomId THEN << >> ELSE rm[r]]

\* ------------------------------------------------------------- RoomService
roomExists(rs, roomId) == \E i \in 1 .. Len(rs) : rs[i] = roomId

getAllRoomIds(rs) == rs

\* ------------------------------------------------------------- MeetingService
\* a plausible slip: the successor at the insertion point is not examined
canBookRoom_NoNextCheck(rs, rm, roomId, startTime, endTime) ==
    IF ~roomExists(rs, roomId) THEN FALSE
    ELSE LET meetings == Subscript(rm, roomId)[roomId]
             it == upper_bound(meetings, Meeting(0, roomId, startTime, endTime))
         IN  IF meetings = << >> THEN TRUE
             ELSE IF it # 1 /\ meetings[it - 1].endTime > startTime THEN FALSE
             ELSE TRUE

\* a plausible slip: a predecessor that ends exactly at the requested start
\* is taken for a conflict
canBookRoom_TouchConflict(rs, rm, roomId, startTime, endTime) ==
    IF ~roomExists(rs, roomId) THEN FALSE
    ELSE LET meetings == Subscript(rm, roomId)[roomId]
             it == upper_bound(meetings, Meeting(0, roomId, startTime, endTime))
         IN  IF meetings = << >> THEN TRUE
             ELSE IF it # 1 /\ meetings[it - 1].endTime >= startTime THEN FALSE
             ELSE IF it # Len(meetings) + 1 /\ meetings[it].startTime < endTime THEN FALSE
             ELSE TRUE

\* a plausible slip: the registry is not asked whether the room exists
canBookRoom_NoRegistryCheck(rs, rm, roomId, startTime, endTime) ==
    LET meetings == Subscript(rm, roomId)[roomId]
        it == upper_bound(meetings, Meeting(0, roomId, startTime, endTime))
    IN  IF meetings = << >> THEN TRUE
        ELSE IF it # 1 /\ meetings[it - 1].endTime > startTime THEN FALSE
        ELSE IF it # Len(meetings) + 1 /\ meetings[it].startTime < endTime THEN FALSE
        ELSE TRUE

\* the value canBookRoom returns
canBookRoom(rs, rm, roomId, startTime, endTime) ==
    IF ~roomExists(rs, roomId) THEN FALSE
    ELSE LET meetings == Subscript(rm, roomId)[roomId]
             dummy == Meeting(0, roomId, startTime, endTime)
             it == upper_bound(meetings, dummy)
         IN  IF meetings = << >> THEN TRUE
             ELSE IF it # 1 /\ meetings[it - 1].endTime > startTime THEN FALSE
             ELSE IF it # Len(meetings) + 1 /\ meetings[it].startTime < endTime THEN FALSE
             ELSE TRUE

\* the map canBookRoom leaves behind: roomMeetings[roomId] is evaluated only
\* for a room the registry knows
canBookRoomStore(rs, rm, roomId) ==
    IF ~roomExists(rs, roomId) THEN rm ELSE Subscript(rm, roomId)

\* getFreeRooms: the tracked rooms, in map order, that canBookRoom accepts
getFreeRooms(rs, rm, startTime, endTime) ==
    KeysInOrder({r \in DOMAIN rm : canBookRoom(rs, rm, r, startTime, endTime)})

\* the constructor: an empty multiset for every room the registry holds
MeetingServiceInit(rs) ==
    LET roomIds == getAllRoomIds(rs)
    IN  [r \in {roomIds[i] : i \in 1 .. Len(roomIds)} |-> << >>]

\* scheduleMeeting, line 163: the argument check
invalidInterval_Strict(startTime, endTime) == startTime > endTime

invalidInterval(startTime, endTime) == startTime >= endTime

\* a plausible slip: the loop gives up after the first room of the map
firstAvailableRoom_FirstOnly(rs, rm, startTime, endTime) ==
    IF DOMAIN rm = {} THEN 0
    ELSE IF canBookRoom(rs, rm, Min(DOMAIN rm), startTime, endTime)
         THEN Min(DOMAIN rm) ELSE 0

\* scheduleMeeting's loop over roomMeetings (ascending room id) with its early
\* return: the first key for which canBookRoom holds, 0 when the loop runs out
RECURSIVE scheduleLoop(_, _, _, _, _)
scheduleLoop(rs, rm, keys, startTime, endTime) ==
    IF keys = << >> THEN 0
    ELSE IF canBookRoom(rs, rm, Head(keys), startTime, endTime) THEN Head(keys)
    ELSE scheduleLoop(rs, rm, Tail(keys), startTime, endTime)

firstAvailableRoom(rs, rm, startTime, endTime) ==
    scheduleLoop(rs, rm, KeysInOrder(DOMAIN rm), startTime, endTime)

\* a plausible slip: the meeting id is drawn before the loop, so a call that
\* finds no room has consumed it
scheduleMeeting_IdFirst(rs, rm, am, next, startTime, endTime) ==
    IF invalidInterval(startTime, endTime)
    THEN [roomMeetings |-> rm, allMeetings |-> am, nextMeetingId |-> next,
          ret |-> 0, exc |-> "invalid_argument"]
    ELSE LET roomId == firstAvailableRoom(rs, rm, startTime, endTime)
             newMeeting == Meeting(next, roomId, startTime, endTime)
         IN  IF roomId = 0
             THEN [roomMeetings |-> rm, allMeetings |-> am, nextMeetingId |-> next + 1,
                   ret |-> 0, exc |-> "runtime_error"]
             ELSE [roomMeetings |-> [rm EXCEPT ![roomId] = insert(rm[roomId], newMeeting)],
                   allMeetings |-> [i \in (DOMAIN am) \cup {next} |->
                                       IF i \in DOMAIN am THEN am[i] ELSE newMeeting],
                   nextMeetingId |-> next + 1,
                   ret |-> roomId, exc |-> "none"]

\* a plausible slip: the id is taken from the number of live meetings, so the
\* id of a cancelled meeting comes back
scheduleMeeting_IdFromSize(rs, rm, am, next, startTime, endTime) ==
    IF invalidInterval(startTime, endTime)
    THEN [roomMeetings |-> rm, allMeetings |-> am, nextMeetingId |-> next,
          ret |-> 0, exc |-> "invalid_argument"]
    ELSE LET roomId == firstAvailableRoom(rs, rm, startTime, endTime)
             meetingId == Cardinality(DOMAIN am) + 1
             newMeeting == Meeting(meetingId, roomId, startTime, endTime)
         IN  IF roomId = 0
             THEN [roomMeetings |-> rm, allMeetings |-> am, nextMeetingId |-> next,
                   ret |-> 0, exc |-> "runtime_error"]
             ELSE [roomMeetings |-> [rm EXCEPT ![roomId] = insert(rm[roomId], newMeeting)],
                   allMeetings |-> [i \in (DOMAIN am) \cup {meetingId} |->
                                       IF i \in DOMAIN am THEN am[i] ELSE newMeeting],
                   nextMeetingId |-> next + 1,
                   ret |-> roomId, exc |-> "none"]

\* scheduleMeeting: the stores and the counter after the call, the room id
\* returned (0 when the call throws) and the exception thrown.
\* map::emplace keeps an entry that is already there.
scheduleMeeting(rs, rm, am, next, startTime, endTime) ==
    IF invalidInterval(startTime, endTime)
    THEN [roomMeetings |-> rm, allMeetings |-> am, nextMeetingId |-> next,
          ret |-> 0, exc |-> "invalid_argument"]
    ELSE LET roomId == firstAvailableRoom(rs, rm, startTime, endTime)
             meetingId == next
             newMeeting == Meeting(meetingId, roomId, startTime, endTime)
         IN  IF roomId = 0
             THEN [roomMeetings |-> rm, allMeetings |-> am, nextMeetingId |-> next,
                   ret |-> 0, exc |-> "runtime_error"]
             ELSE [roomMeetings |-> [rm EXCEPT ![roomId] = insert(rm[roomId], newMeeting)],
                   allMeetings |-> [i \in (DOMAIN am) \cup {meetingId} |->
                                       IF i \in DOMAIN am THEN am[i] ELSE newMeeting],
                   nextMeetingId |-> next + 1,
                   ret |-> roomId, exc |-> "none"]

\* a plausible slip: step 3, the erase from the lookup map, is left out
cancelMeeting_KeepIndex(rm, am, meetingId) ==
    IF meetingId \notin DOMAIN am
    THEN [roomMeetings |-> rm, allMeetings |-> am, ret |-> FALSE]
    ELSE LET meeting == am[meetingId]
             rm1 == Subscript(rm, meeting.roomId)
             roomIt == find(rm1[meeting.roomId], meeting)
         IN  [roomMeetings |->
                  IF roomIt # Len(rm1[meeting.roomId]) + 1
                  THEN [rm1 EXCEPT ![meeting.roomId] = erase(@, roomIt)] ELSE rm1,
              allMeetings |-> am, ret |-> TRUE]

\* a plausible slip: step 2, the erase from the room's multiset, is left out
cancelMeeting_KeepInRoom(rm, am, meetingId) ==
    IF meetingId \notin DOMAIN am
    THEN [roomMeetings |-> rm, allMeetings |-> am, ret |-> FALSE]
    ELSE [roomMeetings |-> rm,
          allMeetings |-> [i \in (DOMAIN am) \ {meetingId} |-> am[i]], ret |-> TRUE]

\* a plausible slip: an id that is not found is reported as cancelled
cancelMeeting_NoLookup(rm, am, meetingId) ==
    IF meetingId \notin DOMAIN am
    THEN [roomMeetings |-> rm, allMeetings |-> am, ret |-> TRUE]
    ELSE LET meeting == am[meetingId]
             rm1 == Subscript(rm, meeting.roomId)
             roomIt == find(rm1[meeting.roomId], meeting)
         IN  [roomMeetings |->
                  IF roomIt # Len(rm1[meeting.roomId]) + 1
                  THEN [rm1 EXCEPT ![meeting.roomId] = erase(@, roomIt)] ELSE rm1,
              allMeetings |-> [i \in (DOMAIN am) \ {meetingId} |-> am[i]],
              ret |-> TRUE]

\* cancelMeeting: the stores after the call and the value returned
cancelMeeting(rm, am, meetingId) ==
    IF meetingId \notin DOMAIN am
    THEN [roomMeetings |-> rm, allMeetings |-> am, ret |-> FALSE]
    ELSE LET meeting == am[meetingId]
             roomId == meeting.roomId
             rm1 == Subscript(rm, roomId)
             roomMeetingSet == rm1[roomId]
             roomIt == find(roomMeetingSet, meeting)
         IN  [roomMeetings |->
                  IF roomIt # Len(roomMeetingSet) + 1
                  THEN [rm1 EXCEPT ![roomId] = erase(roomMeetingSet, roomIt)]
                  ELSE rm1,
              allMeetings |-> [i \in (DOMAIN am) \ {meetingId} |-> am[i]],
              ret |-> TRUE]

\* ------------------------------------------------------------- history
NoUndo == [stage |-> "none", id |-> 0, roomMeetings |-> << >>, allMeetings |-> << >>]

\* a call: the method, its arguments, the value returned (an int, a bool or
\* a vector<int>, the other two fields at their defaults) and the exception
Call(op, args, retInt, retBool, retRooms, exc) ==
    [op |-> op, args |-> args, retInt |-> retInt, retBool |-> retBool,
     retRooms |-> retRooms, exc |-> exc]

\* ------------------------------------------------------------- actions
\* RoomService::addRoom (the room's name plays no part)
AddRoom ==
    /\ nextRoomId <= MaxRooms
    /\ rooms' = Append(rooms, nextRoomId)
    /\ nextRoomId' = nextRoomId + 1
    /\ lastOp' = Call("addRoom", << >>, nextRoomId, FALSE, << >>, "none")
    /\ undo' = NoUndo
    /\ UNCHANGED <<roomMeetings, allMeetings, nextMeetingId>>

\* MeetingService::addRoomToTracking: the room's multiset is assigned empty
AddRoomToTracking(roomId) ==
    /\ roomMeetings' = [r \in (DOMAIN roomMeetings) \cup {roomId} |->
                           IF r = roomId THEN << >> ELSE roomMeetings[r]]
    /\ lastOp' = Call("addRoomToTracking", <<roomId>>, 0, FALSE, << >>, "none")
    /\ undo' = NoUndo
    /\ UNCHANGED <<rooms, nextRoomId, allMeetings, nextMeetingId>>

\* scheduleMeeting, while no more than cap meetings have ever been created
\* (r is the one outcome of the call)
ScheduleMeetingUpTo(cap, startTime, endTime) ==
    \E r \in {scheduleMeeting(rooms, roomMeetings, allMeetings, nextMeetingId,
                               startTime, endTime)} :
        /\ r.nextMeetingId <= cap + 1
        /\ roomMeetings' = r.roomMeetings
        /\ allMeetings' = r.allMeetings
        /\ nextMeetingId' = r.nextMeetingId
        /\ lastOp' = Call("scheduleMeeting", <<startTime, endTime>>, r.ret, FALSE, << >>, r.exc)
        /\ undo' = IF r.exc = "none"
                   THEN [stage |-> "scheduled", id |-> nextMeetingId,
                         roomMeetings |-> roomMeetings, allMeetings |-> allMeetings]
                   ELSE NoUndo
        /\ UNCHANGED <<rooms, nextRoomId>>

ScheduleMeeting(startTime, endTime) ==
    ScheduleMeetingUpTo(MaxMeetings, startTime, endTime)

CancelMeeting(meetingId) ==
    \E r \in {cancelMeeting(roomMeetings, allMeetings, meetingId)} :
        /\ roomMeetings' = r.roomMeetings
        /\ allMeetings' = r.allMeetings
        /\ lastOp' = Call("cancelMeeting", <<meetingId>>, 0, r.ret, << >>, "none")
        /\ undo' = IF r.ret /\ undo.stage = "scheduled" /\ undo.id = meetingId
                   THEN [undo EXCEPT !.stage = "cancelled"]
                   ELSE NoUndo
        /\ UNCHANGED <<rooms, nextRoomId, nextMeetingId>>

GetFreeRooms(startTime, endTime) ==
    /\ lastOp' = Call("getFreeRooms", <<startTime, endTime>>, 0, FALSE,
                      getFreeRooms(rooms, roomMeetings, startTime, endTime), "none")
    /\ undo' = NoUndo
    /\ UNCHANGED <<rooms, nextRoomId, roomMeetings, allMeetings, nextMeetingId>>

CanBookRoom(roomId, startTime, endTime) ==
    /\ roomMeetings' = canBookRoomStore(rooms, roomMeetings, roomId)
    /\ lastOp' = Call("canBookRoom", <<roomId, startTime, endTime>>, 0,
                      canBookRoom(rooms, roomMeetings, roomId, startTime, endTime),
                      << >>, "none")
    /\ undo' = NoUndo
    /\ UNCHANGED <<rooms, nextRoomId, allMeetings, nextMeetingId>>

\* ------------------------------------------------------------- specifications
\* The engine is constructed over a registry that already holds some rooms
\* (none, in main); rooms are then registered and tracked in any order,
\* between any calls.
Init ==
    /\ \E n \in 0 .. MaxRooms :
          /\ rooms = [i \in 1 .. n |-> i]
          /\ nextRoomId = n + 1
          /\ roomMeetings = MeetingServiceInit([i \in 1 .. n |-> i])
    /\ allMeetings = [i \in {} |-> Meeting(0, 0, 0, 0)]
    /\ nextMeetingId = 1
    /\ lastOp = Call("init", << >>, 0, FALSE, << >>, "none")
    /\ undo = NoUndo

\* the calls that change the stores
Next ==
    \/ AddRoom
    \/ \E roomId \in RoomIds : AddRoomToTracking(roomId)
    \/ \E s \in Times, e \in Times : ScheduleMeeting(s, e)
    \/ \E id \in MeetingIds : CancelMeeting(id)

Spec == Init /\ [][Next]_vars

\* the same with the two queries as calls of their own
NextAll ==
    \/ Next
    \/ \E s \in Times, e \in Times : GetFreeRooms(s, e)
    \/ \E roomId \in RoomIds, s \in Times, e \in Times : CanBookRoom(roomId, s, e)

SpecAll == Init /\ [][NextAll]_vars

\* scheduleMeeting and cancelMeeting only, from an engine that holds no
\* meeting: any rooms registered, any room ids tracked.
InitSched ==
    /\ \E n \in 0 .. MaxRooms, tracked \in SUBSET RoomIds :
          /\ rooms = [i \in 1 .. n |-> i]
          /\ nextRoomId = n + 1
          /\ roomMeetings = [r \in tracked |-> << >>]
    /\ allMeetings = [i \in {} |-> Meeting(0, 0, 0, 0)]
    /\ nextMeetingId = 1
    /\ lastOp = Call("init", << >>, 0, FALSE, << >>, "none")
    /\ undo = NoUndo

NextSched ==
    \/ \E s \in Times, e \in Times : ScheduleMeeting(s, e)
    \/ \E id \in MeetingIds : CancelMeeting(id)

SpecSched == InitSched /\ [][NextSched]_vars

\* scheduleMeeting, cancelMeeting and the two queries, from an engine that
\* holds no meeting; the queries are made with start < end
NextCalls ==
    \/ NextSched
    \/ \E s \in Times, e \in Times : s < e /\ GetFreeRooms(s, e)
    \/ \E roomId \in RoomIds, s \in Times, e \in Times :
          s < e /\ CanBookRoom(roomId, s, e)

SpecCalls == InitSched /\ [][NextCalls]_vars

\* One registered and tracked room, as the constructor leaves it, with a
\* longer time line and one more meeting: what a single multiset goes through.
LongTimes == 0 .. (MaxTime + 2)

MoreMeetings == MaxMeetings + 1

InitRoom ==
    /\ rooms = <<1>>
    /\ nextRoomId = 2
    /\ roomMeetings = MeetingServiceInit(<<1>>)
    /\ allMeetings = [i \in {} |-> Meeting(0, 0, 0, 0)]
    /\ nextMeetingId = 1
    /\ lastOp = Call("init", << >>, 0, FALSE, << >>, "none")
    /\ undo = NoUndo

\* the calls are made with start < end
NextRoom ==
    \/ \E s \in LongTimes, e \in LongTimes :
          s < e /\ ScheduleMeetingUpTo(MoreMeetings, s, e)
    \/ \E id \in 1 .. MoreMeetings : CancelMeeting(id)
    \/ \E s \in LongTimes, e \in LongTimes : s < e /\ CanBookRoom(1, s, e)

SpecRoom == InitRoom /\ [][NextRoom]_vars

\* ------------------------------------------------------------- properties
\* the meetings stored in the multiset of room r
Stored(r) == {roomMeetings[r][i] : i \in 1 .. Len(roomMeetings[r])}

\* the (room, position) pairs of all multiset entries
Entries ==
    UNION {{<<r, i>> : i \in 1 .. Len(roomMeetings[r])} : r \in DOMAIN roomMeetings}

\* the step is the call scheduleMeeting(s, e)
ScheduleStep(s, e) == lastOp'.op = "scheduleMeeting" /\ lastOp'.args = <<s, e>>

\* the step is the call cancelMeeting(id)
CancelStep(id) == lastOp'.op = "cancelMeeting" /\ lastOp'.args = <<id>>

\* C1: in every state reached by scheduleMeeting and cancelMeeting calls, any
\* two distinct meetings stored for one room do not overlap: one ends no
\* later than the other starts.
NonOverlap ==
    \A r \in DOMAIN roomMeetings :
        \A i, j \in 1 .. Len(roomMeetings[r]) :
            i # j => \/ roomMeetings[r][i].endTime <= roomMeetings[r][j].startTime
                     \/ roomMeetings[r][j].endTime <= roomMeetings[r][i].startTime

\* a room holds two meetings (back to back)
NonOverlapWitness ==
    \E r \in DOMAIN roomMeetings :
        /\ Len(roomMeetings[r]) >= 2
        /\ lastOp.op = "scheduleMeeting" /\ lastOp.retInt = r

\* C2: the meeting ids that are keys of allMeetings are exactly the meeting
\* ids stored across all rooms' multisets.
Consistency ==
    DOMAIN allMeetings =
        {roomMeetings[p[1]][p[2]].meetingId : p \in Entries}

\* a meeting has been cancelled while another one stays booked
ConsistencyWitness ==
    /\ lastOp.op = "cancelMeeting" /\ lastOp.retBool = TRUE
    /\ DOMAIN allMeetings # {}

\* C3: in every reachable state every active meeting id has exactly one
\* multiset entry, that entry is in the room the allMeetings record names and
\* carries the same start and end time; every multiset entry has such a
\* record. (It holds as long as addRoomToTracking is not called on a room
\* that holds meetings.)
Bijection ==
    /\ \A id \in DOMAIN allMeetings :
          LET at == {p \in Entries : roomMeetings[p[1]][p[2]].meetingId = id}
          IN  /\ Cardinality(at) = 1
              /\ \A p \in at :
                    /\ p[1] = allMeetings[id].roomId
                    /\ roomMeetings[p[1]][p[2]].roomId = p[1]
                    /\ roomMeetings[p[1]][p[2]].startTime = allMeetings[id].startTime
                    /\ roomMeetings[p[1]][p[2]].endTime = allMeetings[id].endTime
              /\ allMeetings[id].meetingId = id
    /\ \A p \in Entries : roomMeetings[p[1]][p[2]].meetingId \in DOMAIN allMeetings

\* C4: a successful scheduleMeeting(start, end) returns the first room, in
\* registration order, for which canBookRoom(room, start, end) holds in the
\* state before the call.
FirstFitRegistrationOrder ==
    [][\A s, e \in Times :
          (ScheduleStep(s, e) /\ lastOp'.exc = "none") =>
              LET fit == {i \in 1 .. Len(rooms) :
                             canBookRoom(rooms, roomMeetings, rooms[i], s, e)}
              IN  fit # {} /\ lastOp'.retInt = rooms[Min(fit)]]_vars

\* C5: scheduleMeeting(start, end) with start >= end throws invalid_argument
\* and leaves roomMeetings, allMeetings and nextMeetingId as they were.
InvalidIntervalRejected ==
    [][\A s, e \in Times :
          (ScheduleStep(s, e) /\ s >= e) =>
              /\ lastOp'.exc = "invalid_argument"
              /\ UNCHANGED <<roomMeetings, allMeetings, nextMeetingId>>]_vars

\* scheduleMeeting(t, t) was rejected while a meeting was booked and a room
\* was free for every interval
InvalidIntervalWitness ==
    /\ lastOp.op = "scheduleMeeting" /\ lastOp.exc = "invalid_argument"
    /\ lastOp.args[1] = lastOp.args[2]
    /\ DOMAIN allMeetings # {}
    /\ \E r \in DOMAIN roomMeetings : roomExists(rooms, r) /\ roomMeetings[r] = << >>

\* C6: for start < end, scheduleMeeting(start, end) throws runtime_error
\* exactly when getFreeRooms(start, end) is empty in the state before the
\* call, and succeeds otherwise.
ExhaustionExact ==
    [][\A s, e \in Times :
          (ScheduleStep(s, e) /\ s < e) =>
              IF getFreeRooms(rooms, roomMeetings, s, e) = << >>
              THEN lastOp'.exc = "runtime_error"
              ELSE lastOp'.exc = "none" /\ lastOp'.retInt # 0]_vars

\* one registered room holds [0, MaxTime) and a request inside it was refused
ExhaustionWitness ==
    /\ lastOp.op = "scheduleMeeting" /\ lastOp.exc = "runtime_error"
    /\ Len(rooms) = 1
    /\ 1 \in DOMAIN roomMeetings
    /\ \E m \in Stored(1) : m.startTime = 0 /\ m.endTime = MaxTime
    /\ lastOp.args[1] > 0

\* C7: a scheduleMeeting call that throws runtime_error changes neither a
\* room's multiset, nor allMeetings, nor the set of tracked rooms, nor
\* nextMeetingId.
ExhaustionNoChange ==
    [][\A s, e \in Times :
          (ScheduleStep(s, e) /\ lastOp'.exc = "runtime_error") =>
              /\ UNCHANGED <<roomMeetings, allMeetings, nextMeetingId, rooms>>
              /\ DOMAIN roomMeetings' = DOMAIN roomMeetings]_vars

\* a request was refused with every registered room occupied, two rooms tracked
ExhaustionNoChangeWitness ==
    /\ lastOp.op = "scheduleMeeting" /\ lastOp.exc = "runtime_error"
    /\ Cardinality(DOMAIN roomMeetings) = 2
    /\ \E r \in DOMAIN roomMeetings : roomMeetings[r] # << >>

\* C8: cancelMeeting(id) for an id that is not a key of allMeetings returns
\* false, throws nothing and leaves roomMeetings, allMeetings and
\* nextMeetingId as they were.
UnknownCancelNoOp ==
    [][\A id \in MeetingIds :
          (CancelStep(id) /\ id \notin DOMAIN allMeetings) =>
              /\ lastOp'.retBool = FALSE
              /\ lastOp'.exc = "none"
              /\ UNCHANGED <<roomMeetings, allMeetings, nextMeetingId>>]_vars

\* an id that was issued and cancelled before is cancelled again, while
\* another meeting is booked
UnknownCancelWitness ==
    /\ lastOp.op = "cancelMeeting" /\ lastOp.retBool = FALSE
    /\ lastOp.args[1] < nextMeetingId
    /\ DOMAIN allMeetings # {}

\* C9: cancelMeeting(id) for an id that is a key of allMeetings returns true
\* and afterwards the id is neither a key of allMeetings nor stored in the
\* multiset of the room it was booked in.
CancelRemovesBoth ==
    [][\A id \in MeetingIds :
          (CancelStep(id) /\ id \in DOMAIN allMeetings) =>
              /\ lastOp'.retBool = TRUE
              /\ id \notin DOMAIN allMeetings'
              /\ allMeetings[id].roomId \in DOMAIN roomMeetings'
              /\ \A i \in 1 .. Len(roomMeetings'[allMeetings[id].roomId]) :
                    roomMeetings'[allMeetings[id].roomId][i].meetingId # id]_vars

\* a meeting was cancelled and the only other meeting is still stored in
\* its room
CancelRemovesBothWitness ==
    /\ lastOp.op = "cancelMeeting" /\ lastOp.retBool = TRUE
    /\ Cardinality(DOMAIN allMeetings) = 1
    /\ \A id \in DOMAIN allMeetings :
          /\ id # lastOp.args[1]
          /\ Len(roomMeetings[allMeetings[id].roomId]) = 1

\* C10: right after a successful scheduleMeeting followed at once by
\* cancelMeeting of the meeting it created, every room's multiset and
\* allMeetings are what they were before the scheduleMeeting call, and so is
\* getFreeRooms for every query interval.
RoundTrip ==
    undo.stage = "cancelled" =>
        /\ roomMeetings = undo.roomMeetings
        /\ allMeetings = undo.allMeetings
        /\ \A s, e \in Times :
              getFreeRooms(rooms, roomMeetings, s, e) =
                  getFreeRooms(rooms, undo.roomMeetings, s, e)

\* the round trip was made while another meeting is booked
RoundTripWitness ==
    /\ undo.stage = "cancelled"
    /\ DOMAIN allMeetings # {}
    /\ lastOp.op = "cancelMeeting"

\* the meeting m overlaps the interval [s, e)
Overlaps(m, s, e) == m.startTime < e /\ s < m.endTime

\* the step is the call canBookRoom(r, s, e)
CanBookStep(r, s, e) == lastOp'.op = "canBookRoom" /\ lastOp'.args = <<r, s, e>>

\* C11: a stored meeting that ends where the request starts, or starts where
\* the request ends, is no conflict: scheduleMeeting(s, e) with s < e is
\* accepted into the room whenever every meeting stored there ends by s or
\* starts at e or later, and the new meeting is stored beside them.
BackToBackLegal ==
    [][\A s, e \in LongTimes :
          (/\ ScheduleStep(s, e) /\ s < e
           /\ 1 \in DOMAIN roomMeetings
           /\ \A m \in Stored(1) : m.endTime <= s \/ e <= m.startTime) =>
              /\ lastOp'.exc = "none"
              /\ lastOp'.retInt = 1
              /\ Len(roomMeetings'[1]) = Len(roomMeetings[1]) + 1
              /\ \E i \in 1 .. Len(roomMeetings'[1]) :
                    /\ roomMeetings'[1][i].meetingId = nextMeetingId
                    /\ roomMeetings'[1][i].startTime = s
                    /\ roomMeetings'[1][i].endTime = e]_vars

\* the room holds three meetings in a row and the middle one, touching its
\* predecessor and its successor, was booked last
BackToBackWitness ==
    /\ lastOp.op = "scheduleMeeting" /\ lastOp.exc = "none" /\ lastOp.retInt = 1
    /\ Len(roomMeetings[1]) = 3
    /\ roomMeetings[1][2].meetingId = nextMeetingId - 1
    /\ roomMeetings[1][1].endTime = roomMeetings[1][2].startTime
    /\ roomMeetings[1][2].endTime = roomMeetings[1][3].startTime
    /\ lastOp.args = <<roomMeetings[1][2].startTime, roomMeetings[1][2].endTime>>

\* C12: for every registered and tracked room and every start < end,
\* canBookRoom, which looks at the two neighbours of the upper_bound position
\* only, returns true exactly when no stored meeting of the room overlaps
\* [start, end).
ConflictDetectionExact ==
    \A r \in DOMAIN roomMeetings : \A s, e \in LongTimes :
        (roomExists(rooms, r) /\ s < e) =>
            (canBookRoom(rooms, roomMeetings, r, s, e)
                <=> ~\E m \in Stored(r) : Overlaps(m, s, e))

\* with [1,2) and [3,4) booked, canBookRoom(1, 0, 4) was called and returned
\* false
ConflictDetectionWitness ==
    /\ lastOp.op = "canBookRoom" /\ lastOp.args = <<1, 0, 4>>
    /\ lastOp.retBool = FALSE
    /\ Len(roomMeetings[1]) = 2
    /\ roomMeetings[1][1].startTime = 1 /\ roomMeetings[1][1].endTime = 2
    /\ roomMeetings[1][2].startTime = 3 /\ roomMeetings[1][2].endTime = 4

\* the step is the call getFreeRooms(s, e)
FreeRoomsStep(s, e) == lastOp'.op = "getFreeRooms" /\ lastOp'.args = <<s, e>>

\* the elements of a sequence
Range(q) == {q[i] : i \in 1 .. Len(q)}

\* C13: getFreeRooms(start, end) returns, without duplicates, exactly the
\* rooms for which canBookRoom(room, start, end) is true, a room without
\* bookings among them when start < end, and changes nothing.
FreeRoomsExact ==
    [][\A s, e \in Times :
          FreeRoomsStep(s, e) =>
              /\ Range(lastOp'.retRooms) =
                    {r \in RoomIds : canBookRoom(rooms, roomMeetings, r, s, e)}
              /\ Cardinality(Range(lastOp'.retRooms)) = Len(lastOp'.retRooms)
              /\ UNCHANGED <<roomMeetings, allMeetings, nextMeetingId>>]_vars

\* C14: canBookRoom(roomId, start, end) changes nothing, whatever the room
\* id: the keys and multisets of roomMeetings, allMeetings and nextMeetingId
\* are as before the call.
CanBookRoomReadOnly ==
    [][\A r \in RoomIds : \A s, e \in Times :
          CanBookStep(r, s, e) =>
              /\ DOMAIN roomMeetings' = DOMAIN roomMeetings
              /\ UNCHANGED <<roomMeetings, allMeetings, nextMeetingId>>]_vars

\* what a scheduleMeeting call hands back to its caller: the one int of
\* `return roomId`
Returned(call) == <<call.retInt>>

\* C15: a successful scheduleMeeting returns both the id of the meeting it
\* created, as recorded in allMeetings, and the id of the room it chose.
ScheduleReturnsBothIds ==
    [][\A s, e \in Times :
          (ScheduleStep(s, e) /\ lastOp'.exc = "none") =>
              \E i, j \in DOMAIN Returned(lastOp') :
                  /\ i # j
                  /\ Returned(lastOp')[i] = nextMeetingId
                  /\ nextMeetingId \in DOMAIN allMeetings'
                  /\ Returned(lastOp')[j] = allMeetings'[nextMeetingId].roomId]_vars

\* the step is a scheduleMeeting call that returned a room
ScheduleOk == lastOp'.op = "scheduleMeeting" /\ lastOp'.exc = "none"

\* C16: meeting ids are unique and never reused. The counter starts at 1; a
\* successful scheduleMeeting creates exactly the meeting whose id is the old
\* nextMeetingId, an id that was not a key before, and advances the counter
\* by one, so the k-th success creates id k; every other call leaves the
\* counter alone and adds no key; every key of allMeetings is below
\* nextMeetingId and is the meetingId of its record.
IdsNeverReused ==
    /\ nextMeetingId = 1 /\ allMeetings = << >>
    /\ [][/\ ScheduleOk =>
                /\ nextMeetingId' = nextMeetingId + 1
                /\ nextMeetingId \notin DOMAIN allMeetings
                /\ DOMAIN allMeetings' = DOMAIN allMeetings \cup {nextMeetingId}
          /\ ~ScheduleOk =>
                /\ nextMeetingId' = nextMeetingId
                /\ DOMAIN allMeetings' \subseteq DOMAIN allMeetings
          /\ \A id \in DOMAIN allMeetings' :
                id < nextMeetingId' /\ allMeetings'[id].meetingId = id]_vars

\* C16 witness: meeting 1 was cancelled and the next success created id 2,
\* not 1 again
IdsNeverReusedWitness ==
    /\ lastOp.op = "scheduleMeeting" /\ lastOp.exc = "none"
    /\ nextMeetingId = 3
    /\ DOMAIN allMeetings = {2}

\* the active meetings, as the lookup map records them
Active == {allMeetings[id] : id \in DOMAIN allMeetings}

\* the active meetings, as the rooms' multisets hold them
Booked == UNION {Stored(r) : r \in DOMAIN roomMeetings}

\* the step is a cancelMeeting call that returned true
CancelOk == lastOp'.op = "cancelMeeting" /\ lastOp'.retBool

\* C17: over scheduleMeeting, cancelMeeting, getFreeRooms and canBookRoom
\* calls the set of active meetings changes only by a successful
\* scheduleMeeting, which adds exactly one meeting, or a successful
\* cancelMeeting, which removes exactly one; a meeting active before and
\* after a call keeps its roomId, startTime and endTime.
Lifecycle ==
    [][/\ ScheduleOk =>
              /\ Active \subseteq Active'
              /\ Cardinality(Active') = Cardinality(Active) + 1
       /\ CancelOk =>
              /\ Active' \subseteq Active
              /\ Cardinality(Active') = Cardinality(Active) - 1
       /\ ~(ScheduleOk \/ CancelOk) => Active' = Active
       /\ Booked' = Active'
       /\ \A id \in DOMAIN allMeetings \cap DOMAIN allMeetings' :
              allMeetings'[id] = allMeetings[id]]_vars

\* C17 witness: of two meetings created, one was cancelled by the last call
\* and the other is still active where it was booked
LifecycleWitness ==
    /\ lastOp.op = "cancelMeeting" /\ lastOp.retBool
    /\ nextMeetingId = 3
    /\ Cardinality(Active) = 1
    /\ Booked = Active

\* the ids that were created and are no longer in the lookup map: since ids
\* are handed out in order from 1 and leave allMeetings only when
\* cancelMeeting returns true, these are the cancelled meetings
Cancelled == {id \in 1 .. (nextMeetingId - 1) : id \notin DOMAIN allMeetings}

\* the ids found in the rooms' multisets
BookedIds == {m.meetingId : m \in Booked}

\* C18: cancelled is terminal. When cancelMeeting(id) returns true, id is
\* gone from allMeetings and from every room's multiset; from then on it
\* stays absent from both, no scheduleMeeting creates a meeting with that id,
\* and cancelMeeting(id) returns false.
CancelledTerminal ==
    [][\A id \in MeetingIds :
          /\ (CancelStep(id) /\ lastOp'.retBool) =>
                 id \in Cancelled' /\ id \notin BookedIds'
          /\ id \in Cancelled =>
                 /\ id \in Cancelled'
                 /\ id \notin BookedIds'
                 /\ \A m \in (Active' \ Active) \cup (Booked' \ Booked) :
                        m.meetingId # id
                 /\ CancelStep(id) => ~lastOp'.retBool]_vars

\* C18 witness: meeting 1 was cancelled, meeting 2 was created after it, and
\* a second cancelMeeting(1) has just returned false
CancelledTerminalWitness ==
    /\ lastOp.op = "cancelMeeting" /\ lastOp.args = <<1>> /\ ~lastOp.retBool
    /\ nextMeetingId = 3
    /\ Cancelled = {1}
    /\ BookedIds = {2}

\* C19: every room registered in the RoomService is a key of roomMeetings in
\* every state reached by addRoom, construction, addRoomToTracking,
\* scheduleMeeting and cancelMeeting, so scheduleMeeting(s, e) with s < e
\* throws runtime_error only when every registered room holds a meeting that
\* overlaps [s, e).
EveryRegisteredRoomHasStore ==
    /\ [](\A r \in RoomIds : roomExists(rooms, r) => r \in DOMAIN roomMeetings)
    /\ [][\A s, e \in Times :
             (ScheduleStep(s, e) /\ s < e /\ lastOp'.exc = "runtime_error") =>
                 \A r \in RoomIds :
                     roomExists(rooms, r) =>
                         /\ r \in DOMAIN roomMeetings
                         /\ \E m \in Stored(r) : Overlaps(m, s, e)]_vars

\* C20: a cancelled slot is bookable again. Right after cancelMeeting(id)
\* has returned true for a meeting recorded with [s, e) in room r,
\* canBookRoom(r, s, e) is true and scheduleMeeting(s, e) succeeds into r or
\* into a room before r.
CancelledSlotBookable ==
    [][\A id \in MeetingIds :
          (CancelStep(id) /\ lastOp'.retBool /\ id \in DOMAIN allMeetings) =>
              LET m == allMeetings[id]
                  again == scheduleMeeting(rooms', roomMeetings', allMeetings',
                                           nextMeetingId', m.startTime, m.endTime)
              IN  /\ canBookRoom(rooms', roomMeetings', m.roomId,
                                 m.startTime, m.endTime)
                  /\ again.exc = "none"
                  /\ again.ret <= m.roomId]_vars

\* C21: a successful scheduleMeeting(start, end) that returns room r adds
\* exactly one meeting, with the id nextMeetingId had before the call, room
\* r and the interval asked for, to roomMeetings[r] and to allMeetings; the
\* other rooms' multisets and the other entries of allMeetings are as they
\* were before the call (kept in undo); canBookRoom(r, start, end) is then
\* false.
ScheduleEffect ==
    (lastOp.op = "scheduleMeeting" /\ lastOp.exc = "none") =>
        LET r == lastOp.retInt
            new == Meeting(undo.id, r, lastOp.args[1], lastOp.args[2])
        IN  /\ undo.stage = "scheduled"
            /\ nextMeetingId = undo.id + 1
            /\ DOMAIN roomMeetings = DOMAIN undo.roomMeetings
            /\ r \in DOMAIN roomMeetings
            /\ \A q \in DOMAIN roomMeetings \ {r} :
                   roomMeetings[q] = undo.roomMeetings[q]
            /\ \E i \in 1 .. Len(roomMeetings[r]) :
                   /\ roomMeetings[r][i] = new
                   /\ erase(roomMeetings[r], i) = undo.roomMeetings[r]
            /\ undo.id \notin DOMAIN undo.allMeetings
            /\ DOMAIN allMeetings = DOMAIN undo.allMeetings \cup {undo.id}
            /\ allMeetings[undo.id] = new
            /\ \A k \in DOMAIN undo.allMeetings : allMeetings[k] = undo.allMeetings[k]
            /\ ~canBookRoom(rooms, roomMeetings, r, lastOp.args[1], lastOp.args[2])

\* C21 witness: the second meeting went to room 2 and room 1 still holds the
\* first one
ScheduleEffectWitness ==
    /\ lastOp.op = "scheduleMeeting" /\ lastOp.exc = "none" /\ lastOp.retInt = 2
    /\ 1 \in DOMAIN roomMeetings /\ Len(roomMeetings[1]) = 1
    /\ Len(roomMeetings[2]) = 1
    /\ DOMAIN allMeetings = {1, 2}

\* C22: removal by identity. When cancelMeeting(id) returns true, find locates
\* an element of the meeting's room, that element's meetingId is id, exactly
\* that element is erased (the room holds one meeting fewer) and every other
\* room's multiset is unchanged.
RemovalByIdentity ==
    [][\A id \in MeetingIds :
          (CancelStep(id) /\ lastOp'.retBool /\ id \in DOMAIN allMeetings) =>
              LET r == allMeetings[id].roomId
                  roomIt == find(roomMeetings[r], allMeetings[id])
              IN  /\ r \in DOMAIN roomMeetings
                  /\ roomIt # Len(roomMeetings[r]) + 1
                  /\ roomMeetings[r][roomIt].meetingId = id
                  /\ roomMeetings'[r] = erase(roomMeetings[r], roomIt)
                  /\ Len(roomMeetings'[r]) = Len(roomMeetings[r]) - 1
                  /\ \A q \in DOMAIN roomMeetings \ {r} :
                         roomMeetings'[q] = roomMeetings[q]]_vars

\* the step is the call addRoomToTracking(r)
TrackStep(r) == lastOp'.op = "addRoomToTracking" /\ lastOp'.args = <<r>>

\* C23: addRoomToTracking(roomId) preserves the engine's invariants whenever
\* it is called: if the ids of allMeetings were the ids stored in the rooms'
\* multisets they still are, and every meeting the room held is still in
\* its multiset.
TrackingKeepsMeetings ==
    [][\A r \in RoomIds :
          TrackStep(r) =>
              /\ BookedIds = DOMAIN allMeetings => BookedIds' = DOMAIN allMeetings'
              /\ r \in DOMAIN roomMeetings => Stored(r) \subseteq Stored(r)']_vars

\* C25: probe and booking agree for every pair of arguments, start >= end
\* included: whenever getFreeRooms(start, end) is not empty,
\* scheduleMeeting(start, end) called in that state succeeds and returns the
\* first room of getFreeRooms(start, end).
ProbeAgreesWithBooking ==
    [][\A s, e \in Times :
          (ScheduleStep(s, e) /\ getFreeRooms(rooms, roomMeetings, s, e) # << >>) =>
              /\ lastOp'.exc = "none"
              /\ lastOp'.retInt = Head(getFreeRooms(rooms, roomMeetings, s, e))]_vars

\* the rooms getFreeRooms(s, e) lists in a state with these stores
FreeSet(rs, rm, s, e) == Range(getFreeRooms(rs, rm, s, e))

\* C26: availability is monotone. For every query interval with s < e, a
\* successful scheduleMeeting only removes rooms from getFreeRooms(s, e), at
\* most the room it booked, and a successful cancelMeeting only adds rooms,
\* at most the room of the cancelled meeting.
AvailabilityMonotone ==
    [][\A s, e \in Times :
          s < e =>
              LET before == FreeSet(rooms, roomMeetings, s, e)
                  after == FreeSet(rooms', roomMeetings', s, e)
              IN  /\ ScheduleOk =>
                         /\ after \subseteq before
                         /\ before \ after \subseteq {lastOp'.retInt}
                  /\ CancelOk =>
                         /\ before \subseteq after
                         /\ after \ before \subseteq
                                {allMeetings[lastOp'.args[1]].roomId}]_vars

\* C26 witness: booking [0, 1) took room 1 out of the rooms free for [0, 2)
\* and left room 2 in
AvailabilityMonotoneWitness ==
    /\ lastOp.op = "scheduleMeeting" /\ lastOp.exc = "none"
    /\ lastOp.args = <<0, 1>> /\ lastOp.retInt = 1
    /\ undo.stage = "scheduled"
    /\ FreeSet(rooms, undo.roomMeetings, 0, 2) = {1, 2}
    /\ FreeSet(rooms, roomMeetings, 0, 2) = {2}

\* C27: a room the registry does not know is never bookable, tracked or not:
\* canBookRoom is false for it for every start and end, getFreeRooms never
\* lists it, and no meeting is ever assigned to it.
UnregisteredNeverBookable ==
    \A r \in RoomIds :
        ~roomExists(rooms, r) =>
            /\ \A s, e \in Times :
                   /\ ~canBookRoom(rooms, roomMeetings, r, s, e)
                   /\ r \notin FreeSet(rooms, roomMeetings, s, e)
            /\ \A id \in DOMAIN allMeetings : allMeetings[id].roomId # r
            /\ r \in DOMAIN roomMeetings => roomMeetings[r] = << >>
            /\ (lastOp.op = "scheduleMeeting" /\ lastOp.exc = "none") =>
                   lastOp.retInt # r

\* C27 witness: room 1 is tracked but not registered, and scheduleMeeting(0, 1)
\* has just failed for want of a room
UnregisteredNeverBookableWitness ==
    /\ ~roomExists(rooms, 1)
    /\ 1 \in DOMAIN roomMeetings
    /\ lastOp.op = "scheduleMeeting" /\ lastOp.args = <<0, 1>>
    /\ lastOp.exc = "runtime_error"

\* C28: in every state reached by scheduleMeeting and cancelMeeting, no two
\* entries of one room's multiset have the same startTime: for every probe
\* start at most one stored element is equivalent to it under operator<.
UniqueStartTimes ==
    \A r \in DOMAIN roomMeetings :
        /\ \A i, j \in 1 .. Len(roomMeetings[r]) :
               roomMeetings[r][i].startTime = roomMeetings[r][j].startTime => i = j
        /\ \A s \in Times :
               Cardinality({i \in 1 .. Len(roomMeetings[r]) :
                               /\ ~MeetingLess(roomMeetings[r][i], Meeting(0, r, s, s))
                               /\ ~MeetingLess(Meeting(0, r, s, s), roomMeetings[r][i])}) <= 1

\* C28 witness: a room holds two meetings, and a request that starts when
\* one of them starts has just been turned away
UniqueStartTimesWitness ==
    /\ lastOp.op = "scheduleMeeting" /\ lastOp.exc = "runtime_error"
    /\ \E r \in DOMAIN roomMeetings :
           /\ Len(roomMeetings[r]) = 2
           /\ \E m \in Stored(r) : m.startTime = lastOp.args[1]

====
